---- MODULE Spec2Model ----
(***************************************************************************)
(* FinanceBook: the category hierarchy engine.                             *)
(*                                                                         *)
(* The React front end (category editor, summary page, payment form) is    *)
(* modelled from its TypeScript source.  The FastAPI back end (the         *)
(* Category Store, the icon upload and the payment-item query) is not part *)
(* of the source tree; it is modelled from the contracts of spec.md        *)
(* sections 4.1-4.5 and 6.                                                 *)
(***************************************************************************)
EXTENDS Integers, Sequences, FiniteSets, TLC

\* ------------------------------------------------------------------ bounds
MaxCategories == 3
MaxUploads == 1
MaxInFlight == 1
MaxRequests == 2
MaxTypes == 2
MaxItems == 1

\* ------------------------------------------------------- program constants
\* JavaScript null / undefined of an id or file field (ids and files are >= 1).
NULL == 0
\* PaymentItemForm.tsx: useCategoriesByType(1), type_id: 1
FormTypeId == 1

UNCLASSIFIED == "UNCLASSIFIED"
StandardName == "standard"

\* Names a user may type into the "Add new Category" input (after trim()).
NewNames == {"Food", ""}

\* The two revisions of the category editor the repository holds.
Builds == {"CategoryEditPage", "part_002"}

VARIABLES
  types,          \* Category Store: sequence of CategoryType rows
  categories,     \* Category Store: sequence of Category rows, categories[i].id = i
  files,          \* stored icon files (names are numbers 1, 2, ...)
  allCategories,  \* the client's cached result of useAllCategories()
  rows,           \* CategoryRow component state, by category id
  saves,          \* executions of handleSave that have not finished
  response,       \* outcome of the latest PUT /categories/{id}
  build,          \* which revision of the editor is running
  items,          \* stored payment items
  viewFilter,     \* 'filter' URL parameter: "all", "expenses" or "incomes"
  selectedCategoryIds,       \* SummaryPage state: the category filter
  selectedDropdownCategory,  \* SummaryPage state: the option picked in the dropdown
  queryData,      \* the payment items usePaymentItems() last delivered
  probe,          \* argument of the latest engine call
  outDesc,        \* result of the latest getDescendants call
  outIcon,        \* result of the latest icon resolution
  log,            \* back end: the checks and writes of updates, in order
  location,       \* the route the browser shows
  form,           \* PaymentItemForm state
  sent,           \* outcome of the latest payment-item request
  searchParams,   \* the 'categories' parameters of the URL, in order
  effects,        \* SummaryPage effects that are due to run
  cache,          \* React Query cache: the queries held and whether each is stale
  outCsv          \* the file the latest CSV export wrote

editorVars == <<allCategories, rows, saves, response, build>>
storeVars == <<types, categories, files, items>>
pageVars == <<viewFilter, selectedCategoryIds, selectedDropdownCategory, queryData>>
callVars == <<probe, outDesc, outIcon>>
flowVars == <<log, location, form, sent>>
clientVars == <<searchParams, effects, cache, outCsv>>
vars == <<storeVars, editorVars, pageVars, callVars, flowVars, clientVars>>

\* ------------------------------------------------------------ sequences
Range(s) == {s[i] : i \in DOMAIN s}

Ids(cats) == {cats[i].id : i \in DOMAIN cats}

\* Array.prototype.find by id; NULL when no element matches
FindById(cats, id) ==
  IF \E i \in DOMAIN cats : cats[i].id = id
  THEN cats[CHOOSE i \in DOMAIN cats : cats[i].id = id /\ \A j \in 1..(i - 1) : cats[j].id # id]
  ELSE NULL

\* ------------------------------------------------- Tree Index Builder
\* childrenMap: parent id -> child ids, in the order of the category list
childrenMap(cats) ==
  [p \in {cats[i].parent_id : i \in DOMAIN cats} \ {NULL} |->
     LET kids == SelectSeq(cats, LAMBDA c : c.parent_id = p)
     IN  [k \in DOMAIN kids |-> kids[k].id]]

\* Result of a traversal that does not terminate.
Diverges == <<-1>>

\* getDescendants: the while loop over the explicit stack.  `fuel` counts the
\* iterations left; on a forest every id is popped at most once, so running
\* out of fuel means the loop never ends.
RECURSIVE getDescendantsLoop(_, _, _, _)
getDescendantsLoop(map, stack, result, fuel) ==
  IF stack = <<>> THEN result
  ELSE IF fuel = 0 THEN Diverges
  ELSE LET current  == stack[Len(stack)]
           rest     == SubSeq(stack, 1, Len(stack) - 1)
           children == IF current \in DOMAIN map THEN map[current] ELSE <<>>
       IN  getDescendantsLoop(map, rest \o children, result \o children, fuel - 1)

\* mutant: only the direct children are returned
getDescendantsChildrenOnly(cats, id) ==
  IF id \in DOMAIN childrenMap(cats) THEN childrenMap(cats)[id] ELSE <<>>

getDescendants(cats, id) ==
  getDescendantsLoop(childrenMap(cats), <<id>>, <<>>, Len(cats) + 1)

\* ------------------------------------------------ Category Store (back end)
\* Descendant Resolver of the store: ids reachable by child links; a node
\* already visited is not expanded again.
RECURSIVE descendantsFrom(_, _, _)
descendantsFrom(cats, frontier, visited) ==
  IF frontier = {} THEN visited
  ELSE LET kids == {cats[i].id : i \in {j \in DOMAIN cats : cats[j].parent_id \in frontier}}
       IN  descendantsFrom(cats, kids \ visited, visited \cup kids)

\* mutant: only the direct children count as descendants
descendantsOfShallow(cats, id) ==
  {cats[i].id : i \in {j \in DOMAIN cats : cats[j].parent_id = id}}

descendantsOf(cats, id) == descendantsFrom(cats, {id}, {})

\* mutant: the guard refuses only the category itself
canReparentSelfOnly(cats, id, proposedParentId) == proposedParentId # id

\* Cycle Guard
canReparent(cats, id, proposedParentId) ==
  /\ proposedParentId # id
  /\ proposedParentId \notin descendantsOf(cats, id)

TypeIds(tps) == {tps[i].id : i \in DOMAIN tps}

\* parent_id, if set, names an existing category of the given type
parentOk(cats, type_id, parent_id) ==
  \/ parent_id = NULL
  \/ /\ parent_id \in Ids(cats)
     /\ FindById(cats, parent_id).type_id = type_id

\* outcomes of a store operation
Ok == [status |-> "ok", detail |-> ""]
NotFound(what) == [status |-> "NotFound", detail |-> what]
ValidationError(what) == [status |-> "ValidationError", detail |-> what]

\* update(id, {parent_id, type_id, icon_file}): the outcome of its checks
updateResult(tps, cats, id, body) ==
  IF id \notin Ids(cats) THEN NotFound("category")
  ELSE IF body.type_id \notin TypeIds(tps) THEN ValidationError("unknown type")
  ELSE IF ~parentOk(cats, body.type_id, body.parent_id) THEN ValidationError("cross-type parent")
  ELSE IF body.parent_id # NULL /\ ~canReparent(cats, id, body.parent_id)
       THEN ValidationError("would create a cycle")
  ELSE Ok

\* mutant: the new parent is written although the checks failed
updateStoreUnchecked(tps, cats, id, body) ==
  [i \in DOMAIN cats |->
     IF cats[i].id = id THEN [cats[i] EXCEPT !.parent_id = body.parent_id] ELSE cats[i]]

\* mutant: the new type is written to the children of the row as well
writeRowAndChildren(cats, id, body) ==
  [i \in DOMAIN cats |->
     IF cats[i].id = id
     THEN [cats[i] EXCEPT !.parent_id = body.parent_id,
                          !.type_id = body.type_id,
                          !.icon_file = body.icon_file]
     ELSE IF cats[i].parent_id = id THEN [cats[i] EXCEPT !.type_id = body.type_id]
     ELSE cats[i]]

\* the write of an update: the one row gets the fields of the body
writeRow(cats, id, body) ==
  [i \in DOMAIN cats |->
     IF cats[i].id = id
     THEN [cats[i] EXCEPT !.parent_id = body.parent_id,
                          !.type_id = body.type_id,
                          !.icon_file = body.icon_file]
     ELSE cats[i]]

\* the rows after the update: one atomic write of the one row, or no write
updateStore(tps, cats, id, body) ==
  IF updateResult(tps, cats, id, body) = Ok THEN writeRow(cats, id, body) ELSE cats

\* mutant: the name is not checked
createResultAnyName(tps, cats, body) ==
  IF body.type_id \notin TypeIds(tps) THEN ValidationError("unknown type")
  ELSE IF ~parentOk(cats, body.type_id, body.parent_id) THEN ValidationError("cross-type parent")
  ELSE Ok

\* create(type_id, name, parent_id): the outcome of its checks
createResult(tps, cats, body) ==
  IF body.name = "" THEN ValidationError("empty name")
  ELSE IF body.type_id \notin TypeIds(tps) THEN ValidationError("unknown type")
  ELSE IF ~parentOk(cats, body.type_id, body.parent_id) THEN ValidationError("cross-type parent")
  ELSE Ok

createStore(tps, cats, body) ==
  IF createResult(tps, cats, body) = Ok
  THEN Append(cats, [id |-> Len(cats) + 1, name |-> body.name, type_id |-> body.type_id,
                     parent_id |-> body.parent_id, icon_file |-> NULL])
  ELSE cats

\* POST /uploadicon/: the stored filename the upload returns
uploadFilename(stored) == Cardinality(stored) + 1

\* listByType(type_id)
listByType(cats, type_id) == SelectSeq(cats, LAMBDA c : c.type_id = type_id)

\* Filter Expander: the selected ids and all their descendants
expand(cats, selectedIds) ==
  selectedIds \cup UNION {descendantsOf(cats, id) : id \in selectedIds}

\* GET /payment-items: the stored items that pass the income/expense filter
\* and, when category ids are given, carry a category of the expanded set;
\* each item is returned with its categories joined in
paymentItems(cats, its, query) ==
  LET wanted == expand(cats, Range(query.category_ids))
      match(it) ==
        /\ query.expense_only => it.amount < 0
        /\ query.income_only => it.amount > 0
        /\ query.category_ids # <<>> => Range(it.category_ids) \cap wanted # {}
      hits == SelectSeq(its, match)
  IN  [k \in DOMAIN hits |->
         [id |-> hits[k].id, amount |-> hits[k].amount, date |-> hits[k].date,
          categories |-> [j \in DOMAIN hits[k].category_ids |->
                             FindById(cats, hits[k].category_ids[j])]]]

\* ------------------------------------------------ category editor (client)
\* types.find(t => t.name === 'standard')?.id
standardTypeId(tps) ==
  IF \E i \in DOMAIN tps : tps[i].name = StandardName
  THEN tps[CHOOSE i \in DOMAIN tps :
             tps[i].name = StandardName /\ \A j \in 1..(i - 1) : tps[j].name # StandardName].id
  ELSE NULL

NotUnclassified(cats) == SelectSeq(cats, LAMBDA c : c.name # UNCLASSIFIED)

\* sorted: the first category of the standard type is moved to the top
sortedNamed(tps, cats) ==
  LET std == standardTypeId(tps)
      hit == {i \in DOMAIN cats : cats[i].type_id = std}
  IN  IF std = NULL \/ hit = {} THEN cats
      ELSE LET k == CHOOSE i \in hit : \A j \in hit : i <= j
           IN  <<cats[k]>> \o SubSeq(cats, 1, k - 1) \o SubSeq(cats, k + 1, Len(cats))

\* part_002 renders no row for a category named UNCLASSIFIED
sorted(tps, cats) ==
  IF build = "part_002" THEN NotUnclassified(sortedNamed(tps, cats))
  ELSE sortedNamed(tps, cats)

\* sorted[0]?.id
standardRootId(tps, cats) ==
  IF sorted(tps, cats) = <<>> THEN NULL ELSE sorted(tps, cats)[1].id

disableTypeSelect(tps, cats, cat) ==
  /\ standardTypeId(tps) # NULL
  /\ standardRootId(tps, cats) # NULL
  /\ cat.type_id = standardTypeId(tps)
  /\ cat.id = standardRootId(tps, cats)

\* mutant: descendants are not filtered out
validParentsNoDescendants(cats, cat, typeId) ==
  SelectSeq(cats, LAMBDA c : c.type_id = typeId /\ c.id # cat.id)

\* the valid-parent filter of CategoryRow (the options of the parent select)
validParentsNamed(cats, cat, typeId) ==
  SelectSeq(cats, LAMBDA c :
     /\ c.type_id = typeId
     /\ c.id # cat.id
     /\ c.id \notin Range(getDescendants(cats, cat.id)))

validParents(cats, cat, typeId) ==
  IF build = "part_002" THEN NotUnclassified(validParentsNamed(cats, cat, typeId))
  ELSE validParentsNamed(cats, cat, typeId)

\* useState initial values of a CategoryRow
initialRow(cat) == [parentId |-> cat.parent_id, typeId |-> cat.type_id, icon |-> FALSE]

\* The rows after the category list was fetched again: new rows mount, and
\* the effect on [cat.parent_id, cat.type_id] resets a mounted row.
rowsAfterFetch(tps, old, new, rws) ==
  [id \in Ids(sorted(tps, new)) |->
     LET cat == FindById(new, id)
     IN  IF id \notin DOMAIN rws THEN initialRow(cat)
         ELSE LET was == FindById(old, id)
              IN  IF was.parent_id # cat.parent_id \/ was.type_id # cat.type_id
                  THEN [rws[id] EXCEPT !.parentId = cat.parent_id, !.typeId = cat.type_id]
                  ELSE rws[id]]

\* the request body handleSave sends for a row
saveBody(cat, row, icon_file) ==
  [parent_id |-> row.parentId, type_id |-> row.typeId, icon_file |-> icon_file]

\* ------------------------------------------------------ summary page (client)
\* mutant: the income flag is sent for the expenses view and vice versa
buildPaymentQuerySwapped(params) ==
  [expense_only |-> params.income_only, income_only |-> params.expense_only,
   category_ids |-> params.category_ids]

\* mutant: only the first selected category id is sent
buildPaymentQueryFirstOnly(params) ==
  [expense_only |-> params.expense_only, income_only |-> params.income_only,
   category_ids |-> IF params.category_ids = <<>> THEN <<>> ELSE <<params.category_ids[1]>>]

\* buildPaymentQuery: the parameters of the query string (a flag that is not
\* set is absent; category_ids is appended once per id, absent when empty)
buildPaymentQuery(params) ==
  [expense_only |-> params.expense_only, income_only |-> params.income_only,
   category_ids |-> IF Len(params.category_ids) > 0 THEN params.category_ids ELSE <<>>]

\* usePaymentItems: the data the query delivers for the page's filters
usePaymentItems(view, categoryIds) ==
  paymentItems(categories, items,
     buildPaymentQuery([expense_only |-> (view = "expenses"),
                        income_only |-> (view = "incomes"),
                        category_ids |-> categoryIds]))

\* options of the summary page's category-filter dropdown
filterOptions(cats, selected) ==
  SelectSeq(cats, LAMBDA c : c.id \notin Range(selected))

\* options of the payment form's category dropdown
formOptions(cats) == NotUnclassified(listByType(cats, FormTypeId))

\* Result of an icon walk that does not terminate.
IconDiverges == <<"diverges">>
NoIcon == <<>>
DownloadUrl(icon_file) == <<"/api/download_static/", icon_file>>

\* mutant: the walk goes on to the root and returns the last icon it meets
RECURSIVE iconWalkFarthest(_, _, _)
iconWalkFarthest(cats, current, fuel) ==
  IF fuel = 0 THEN IconDiverges
  ELSE LET above == IF current.parent_id \in Ids(cats)
                    THEN iconWalkFarthest(cats, FindById(cats, current.parent_id), fuel - 1)
                    ELSE NoIcon
       IN  IF above # NoIcon THEN above
           ELSE IF current.icon_file # NULL THEN DownloadUrl(current.icon_file)
           ELSE NoIcon

\* the while loop of iconUrl: up the parent chain to the first icon_file
RECURSIVE iconWalk(_, _, _)
iconWalk(cats, current, fuel) ==
  IF fuel = 0 THEN IconDiverges
  ELSE IF current.icon_file # NULL THEN DownloadUrl(current.icon_file)
  ELSE IF current.parent_id \in Ids(cats)
       THEN iconWalk(cats, FindById(cats, current.parent_id), fuel - 1)
  ELSE NoIcon

\* the category of the standard type the walk starts from (<<>> if none)
iconStart(item, std) == SelectSeq(item.categories, LAMBDA c : c.type_id = std)

\* PaymentItemLine.iconUrl
iconUrl(item, cats, std) ==
  IF std = NULL \/ iconStart(item, std) = <<>> THEN NoIcon
  ELSE iconWalk(cats, iconStart(item, std)[1], Len(cats) + 1)

\* ------------------------------------------------------------------ actions
\* no update has reached the back end, the summary page is shown, no form is
\* mounted
NoForm == [mounted |-> FALSE]
NothingSent == [status |-> "none"]
NoFile == <<>>
NoEffects == [due |-> {}, sel |-> <<>>, url |-> <<>>, cause |-> "none"]
FlowIdle ==
  /\ log = <<>>
  /\ location = "/"
  /\ form = NoForm
  /\ sent = NothingSent
  /\ searchParams = <<>>
  /\ effects = NoEffects
  /\ cache = <<>>
  /\ outCsv = NoFile

Init ==
  /\ types = <<[id |-> 1, name |-> StandardName], [id |-> 2, name |-> "other"]>>
  /\ categories = <<[id |-> 1, name |-> UNCLASSIFIED, type_id |-> 1,
                     parent_id |-> NULL, icon_file |-> NULL]>>
  /\ files = {}
  /\ allCategories = <<>>
  /\ rows = <<>>
  /\ saves = {}
  /\ response = [status |-> "none", detail |-> ""]
  /\ build \in Builds
  /\ items = <<>>
  /\ viewFilter = "all"
  /\ selectedCategoryIds = <<>>
  /\ selectedDropdownCategory = NULL
  /\ queryData = <<>>
  /\ probe = [op |-> "none", id |-> NULL]
  /\ outDesc = <<>>
  /\ outIcon = <<>>
  /\ FlowIdle

\* useAllCategories() delivers the stored list (first load, invalidation,
\* window focus)
Refetch ==
  /\ allCategories # categories
  /\ allCategories' = categories
  /\ rows' = rowsAfterFetch(types, allCategories, categories, rows)
  /\ UNCHANGED <<clientVars, flowVars, types, categories, files, saves, response, build, items, pageVars, callVars>>

\* onChange of the parent select: an option of the list, or "No parent"
SelectParent(id, p) ==
  /\ id \in DOMAIN rows
  /\ p \in {NULL} \cup Ids(validParents(allCategories, FindById(allCategories, id), rows[id].typeId))
  /\ rows[id].parentId # p
  /\ rows' = [rows EXCEPT ![id].parentId = p]
  /\ UNCHANGED <<clientVars, flowVars, types, categories, files, allCategories, saves, response, build, items, pageVars, callVars>>

\* onChange of the type select
SelectType(id, t) ==
  /\ id \in DOMAIN rows
  /\ ~disableTypeSelect(types, allCategories, FindById(allCategories, id))
  /\ t \in TypeIds(types)
  /\ rows[id].typeId # t
  /\ rows' = [rows EXCEPT ![id].typeId = t]
  /\ UNCHANGED <<clientVars, flowVars, types, categories, files, allCategories, saves, response, build, items, pageVars, callVars>>

\* rows that hold a chosen icon file
WithIcon == {id \in DOMAIN rows : rows[id].icon}

\* onChange of the file input (at most MaxUploads files are ever chosen)
SelectIcon(id) ==
  /\ id \in DOMAIN rows
  /\ ~rows[id].icon
  /\ Cardinality(files) + Cardinality(WithIcon) < MaxUploads
  /\ rows' = [rows EXCEPT ![id].icon = TRUE]
  /\ UNCHANGED <<clientVars, flowVars, types, categories, files, allCategories, saves, response, build, items, pageVars, callVars>>

Uploading == {s \in saves : s.phase = "uploading"}

\* handleSave up to its first await
ClickSave(id) ==
  /\ id \in DOMAIN rows
  /\ Cardinality(saves) < MaxInFlight
  /\ LET cat == FindById(allCategories, id)
     IN  IF rows[id].icon
         THEN /\ Cardinality(files) + Cardinality(Uploading) < MaxUploads
              /\ saves' = saves \cup {[id |-> id, phase |-> "uploading", uploaded |-> NULL,
                                       body |-> saveBody(cat, rows[id], cat.icon_file)]}
         ELSE saves' = saves \cup {[id |-> id, phase |-> "updating", uploaded |-> NULL,
                                    body |-> saveBody(cat, rows[id], cat.icon_file)]}
  /\ UNCHANGED <<clientVars, flowVars, types, categories, files, allCategories, rows, response, build, items, pageVars, callVars>>

\* uploadCategoryIcon: the file is stored, handleSave goes on to the update
UploadIcon(s) ==
  /\ s \in saves
  /\ s.phase = "uploading"
  /\ LET f == uploadFilename(files)
     IN  /\ files' = files \cup {f}
         /\ saves' = (saves \ {s}) \cup
                       {[s EXCEPT !.phase = "updating", !.uploaded = f, !.body.icon_file = f]}
  /\ UNCHANGED <<clientVars, flowVars, types, categories, allCategories, rows, response, build, items, pageVars, callVars>>

\* PUT /categories/{id}: the store handles the update and handleSave ends;
\* onSuccess invalidates ['all-categories'], which fetches the list again
UpdateCategory(s) ==
  /\ s \in saves
  /\ s.phase = "updating"
  /\ categories' = updateStore(types, categories, s.id, s.body)
  /\ response' = updateResult(types, categories, s.id, s.body)
  /\ saves' = saves \ {s}
  /\ IF updateResult(types, categories, s.id, s.body) = Ok
     THEN /\ allCategories' = categories'
          /\ rows' = rowsAfterFetch(types, allCategories, categories', rows)
     ELSE UNCHANGED <<allCategories, rows>>
  /\ UNCHANGED <<clientVars, flowVars, types, files, build, items, pageVars, callVars>>

\* onClick of the Add button: POST /categories; onSuccess invalidates
\* ['all-categories'], which fetches the list again
CreateCategory(newCatName) ==
  /\ Len(categories) < MaxCategories
  /\ newCatName # ""
  /\ LET typeId == IF standardTypeId(types) # NULL THEN standardTypeId(types)
                   ELSE IF types # <<>> THEN types[1].id ELSE NULL
         body == [name |-> newCatName, type_id |-> typeId, parent_id |-> NULL]
     IN  /\ typeId # NULL
         /\ categories' = createStore(types, categories, body)
         /\ IF createResult(types, categories, body) = Ok
            THEN /\ allCategories' = categories'
                 /\ rows' = rowsAfterFetch(types, allCategories, categories', rows)
            ELSE UNCHANGED <<allCategories, rows>>
  /\ UNCHANGED <<clientVars, flowVars, types, files, saves, response, build, items, pageVars, callVars>>

\* The category editor; the user picks no icon file.
Next ==
  \/ Refetch
  \/ \E id \in Ids(allCategories), p \in {NULL} \cup Ids(allCategories) : SelectParent(id, p)
  \/ \E id \in Ids(allCategories), t \in TypeIds(types) : SelectType(id, t)
  \/ \E id \in Ids(allCategories) : ClickSave(id)
  \/ \E s \in saves : UpdateCategory(s)
  \/ \E n \in NewNames : CreateCategory(n)

Spec == Init /\ [][Next]_vars

\* The category editor with icon files, on a store of two categories.
InitIcons ==
  /\ types = <<[id |-> 1, name |-> StandardName], [id |-> 2, name |-> "other"]>>
  /\ categories = <<[id |-> 1, name |-> UNCLASSIFIED, type_id |-> 1,
                     parent_id |-> NULL, icon_file |-> NULL],
                    [id |-> 2, name |-> "Food", type_id |-> 1,
                     parent_id |-> NULL, icon_file |-> NULL]>>
  /\ files = {}
  /\ allCategories = <<>>
  /\ rows = <<>>
  /\ saves = {}
  /\ response = [status |-> "none", detail |-> ""]
  /\ build \in Builds
  /\ items = <<>>
  /\ viewFilter = "all"
  /\ selectedCategoryIds = <<>>
  /\ selectedDropdownCategory = NULL
  /\ queryData = <<>>
  /\ probe = [op |-> "none", id |-> NULL]
  /\ outDesc = <<>>
  /\ outIcon = <<>>
  /\ FlowIdle

NextIcons ==
  \/ Refetch
  \/ \E id \in Ids(allCategories), p \in {NULL} \cup Ids(allCategories) : SelectParent(id, p)
  \/ \E id \in Ids(allCategories), t \in TypeIds(types) : SelectType(id, t)
  \/ \E id \in Ids(allCategories) : SelectIcon(id)
  \/ \E id \in Ids(allCategories) : ClickSave(id)
  \/ \E s \in saves : UploadIcon(s)
  \/ \E s \in saves : UpdateCategory(s)

SpecIcons == InitIcons /\ [][NextIcons]_vars

\* ------------------------------------------------------- stores to start from
\* the category rows given by one parent, type and icon choice per id
MakeStore(f) ==
  [i \in DOMAIN f |->
     [id |-> i, name |-> IF i = 1 THEN UNCLASSIFIED ELSE "Food",
      type_id |-> f[i].type_id, parent_id |-> f[i].parent_id,
      icon_file |-> IF f[i].icon THEN i ELSE NULL]]

RECURSIVE chainEnds(_, _, _)
chainEnds(cats, id, n) ==
  IF cats[id].parent_id = NULL THEN TRUE
  ELSE IF n = 0 THEN FALSE
  ELSE chainEnds(cats, cats[id].parent_id, n - 1)

\* UNCLASSIFIED is of the standard type, every parent is of its child's type,
\* and no parent chain returns to its start
WellFormed(cats) ==
  /\ cats[1].type_id = 1
  /\ \A i \in DOMAIN cats :
        /\ cats[i].parent_id # NULL => cats[cats[i].parent_id].type_id = cats[i].type_id
        /\ chainEnds(cats, i, Len(cats))

StoresOf(n, typeIds, icons) ==
  {c \in {MakeStore(f) : f \in [1..n -> [parent_id : 0..n, type_id : typeIds, icon : icons]]} :
      WellFormed(c)}

\* every store of up to MaxCategories categories the editor can produce
Stores == UNION {StoresOf(n, {1, 2}, BOOLEAN) : n \in 1..MaxCategories}

\* the stores of MaxCategories categories of the standard type, without icons
StandardStores == StoresOf(MaxCategories, {1}, {FALSE})

\* two stored payment items, an expense and an income, each with no category
\* or one (the payment form sends at most one category id)
ItemLists(cats) ==
  LET tags == {<<>>} \cup {<<id>> : id \in Ids(cats)}
  IN  {<<[id |-> 1, amount |-> -5, date |-> 1, category_ids |-> t1],
         [id |-> 2, amount |-> 7, date |-> 2, category_ids |-> t2]>> : t1 \in tags, t2 \in tags}

\* ------------------------------------------------- engine calls (SpecEngine)
NoCall == [op |-> "none", id |-> NULL]

InitEngine ==
  /\ types = <<[id |-> 1, name |-> StandardName], [id |-> 2, name |-> "other"]>>
  /\ categories \in Stores
  /\ files = {categories[i].icon_file : i \in DOMAIN categories} \ {NULL}
  /\ allCategories = categories
  /\ rows = <<>>
  /\ saves = {}
  /\ response = [status |-> "none", detail |-> ""]
  /\ build \in Builds
  /\ items = <<>>
  /\ viewFilter = "all"
  /\ selectedCategoryIds = <<>>
  /\ selectedDropdownCategory = NULL
  /\ queryData = <<>>
  /\ probe = NoCall
  /\ outDesc = <<>>
  /\ outIcon = NoIcon
  /\ FlowIdle

\* the editor computes the descendants of a category
CallGetDescendants(id) ==
  /\ probe' = [op |-> "getDescendants", id |-> id]
  /\ outDesc' = getDescendants(allCategories, id)
  /\ UNCHANGED <<clientVars, flowVars, storeVars, editorVars, pageVars, outIcon>>

\* the summary page renders the line of a payment item tagged with category id
CallIconUrl(id) ==
  /\ probe' = [op |-> "iconUrl", id |-> id]
  /\ outIcon' = iconUrl([id |-> 1, amount |-> -5, categories |-> <<FindById(categories, id)>>],
                        allCategories, standardTypeId(types))
  /\ UNCHANGED <<clientVars, flowVars, storeVars, editorVars, pageVars, outDesc>>

NextEngine ==
  \/ \E id \in Ids(allCategories) : CallGetDescendants(id)
  \/ \E id \in Ids(allCategories) : CallIconUrl(id)

SpecEngine == InitEngine /\ [][NextEngine]_vars

\* ------------------------------------------------ summary page (SpecSummary)
InitSummary ==
  /\ types = <<[id |-> 1, name |-> StandardName], [id |-> 2, name |-> "other"]>>
  /\ categories \in StandardStores
  /\ files = {}
  /\ allCategories = <<>>
  /\ rows = <<>>
  /\ saves = {}
  /\ response = [status |-> "none", detail |-> ""]
  /\ build = "CategoryEditPage"
  /\ items \in ItemLists(categories)
  /\ viewFilter = "all"
  /\ selectedCategoryIds = <<>>
  /\ selectedDropdownCategory = NULL
  /\ queryData = <<>>
  /\ probe = NoCall
  /\ outDesc = <<>>
  /\ outIcon = NoIcon
  /\ FlowIdle

\* the page mounts: the categories and the payment items arrive
SummaryLoad ==
  /\ allCategories = <<>>
  /\ allCategories' = categories
  /\ queryData' = usePaymentItems(viewFilter, selectedCategoryIds)
  /\ UNCHANGED <<clientVars, flowVars, storeVars, rows, saves, response, build, callVars,
                 viewFilter, selectedCategoryIds, selectedDropdownCategory>>

\* onChange of the category-filter dropdown
SelectDropdownCategory(id) ==
  /\ id \in {NULL} \cup Ids(filterOptions(allCategories, selectedCategoryIds))
  /\ selectedDropdownCategory # id
  /\ selectedDropdownCategory' = id
  /\ UNCHANGED <<clientVars, flowVars, storeVars, editorVars, callVars, viewFilter, selectedCategoryIds, queryData>>

\* handleAddCategory; the query runs again for the new selection
handleAddCategory ==
  /\ selectedDropdownCategory # NULL
  /\ selectedDropdownCategory \notin Range(selectedCategoryIds)
  /\ selectedCategoryIds' = Append(selectedCategoryIds, selectedDropdownCategory)
  /\ selectedDropdownCategory' = NULL
  /\ queryData' = usePaymentItems(viewFilter, selectedCategoryIds')
  /\ UNCHANGED <<clientVars, flowVars, storeVars, editorVars, callVars, viewFilter>>

\* handleRemoveCategory
handleRemoveCategory(id) ==
  /\ id \in Range(selectedCategoryIds) \cap Ids(allCategories)
  /\ selectedCategoryIds' = SelectSeq(selectedCategoryIds, LAMBDA x : x # id)
  /\ queryData' = usePaymentItems(viewFilter, selectedCategoryIds')
  /\ UNCHANGED <<clientVars, flowVars, storeVars, editorVars, callVars, viewFilter, selectedDropdownCategory>>

\* handleResetFilters
handleResetFilters ==
  /\ Range(selectedCategoryIds) \cap Ids(allCategories) # {}
  /\ selectedCategoryIds' = <<>>
  /\ queryData' = usePaymentItems(viewFilter, selectedCategoryIds')
  /\ UNCHANGED <<clientVars, flowVars, storeVars, editorVars, callVars, viewFilter, selectedDropdownCategory>>

\* handleGlobalNavFilterChange: the new URL carries no 'categories'
\* parameter, so the URL effect empties the selection
handleGlobalNavFilterChange(filter) ==
  /\ allCategories # <<>>
  /\ viewFilter # filter
  /\ viewFilter' = filter
  /\ selectedCategoryIds' = <<>>
  /\ queryData' = usePaymentItems(filter, selectedCategoryIds')
  /\ UNCHANGED <<clientVars, flowVars, storeVars, editorVars, callVars, selectedDropdownCategory>>

NextSummary ==
  \/ SummaryLoad
  \/ \E id \in {NULL} \cup Ids(allCategories) : SelectDropdownCategory(id)
  \/ handleAddCategory
  \/ \E id \in Ids(allCategories) : handleRemoveCategory(id)
  \/ handleResetFilters
  \/ \E filter \in {"all", "expenses", "incomes"} : handleGlobalNavFilterChange(filter)

SpecSummary == InitSummary /\ [][NextSummary]_vars

\* ------------------------------------------------------ reference relations
\* ids met by following parent_id from id, for at most n steps
RECURSIVE parentChain(_, _, _)
parentChain(cats, id, n) ==
  IF n = 0 \/ id \notin Ids(cats) THEN {}
  ELSE LET p == FindById(cats, id).parent_id
       IN  IF p = NULL THEN {} ELSE {p} \cup parentChain(cats, p, n - 1)

ProperAncestors(cats, id) == parentChain(cats, id, Len(cats))

\* ids from which id is reached by following parent_id one or more times
Reachable(cats, id) == {d \in Ids(cats) : id \in ProperAncestors(cats, d)}

\* the save that the step from this state to the next one completes
Completed(s) == s \in saves /\ s.phase = "updating" /\ s \notin saves'

C2_CycleRejected ==
  [][\A s \in saves :
       (Completed(s) /\ s.body.parent_id \in Reachable(categories, s.id) \cup {s.id})
          => (response'.status = "ValidationError" /\ categories' = categories)]_vars

\* C2 witness: the store has answered an update with "would create a cycle".
C2_Witness ==
  /\ response = ValidationError("would create a cycle")
  /\ \E id \in DOMAIN rows : rows[id].parentId \in Reachable(categories, id)

\* C3 as stated: for every category P of C's stored type, the valid-parent
\* filter accepts P exactly when P is not C and not a descendant of C.
C3_Original ==
  \A id \in DOMAIN rows :
    LET cat == FindById(allCategories, id)
    IN  \A i \in DOMAIN allCategories :
          LET P == allCategories[i]
          IN  P.type_id = cat.type_id =>
                ((P \in Range(validParents(allCategories, cat, rows[id].typeId)))
                   <=> (P.id # id /\ P.id \notin Reachable(allCategories, id)))

\* C3 amended: for every category P of the type selected in C's row, the
\* filter accepts P exactly when P is not C, not a descendant of C and (in
\* the part_002 revision) not named UNCLASSIFIED.
C3_ValidParents ==
  \A id \in DOMAIN rows :
    LET cat == FindById(allCategories, id)
    IN  \A i \in DOMAIN allCategories :
          LET P == allCategories[i]
          IN  P.type_id = rows[id].typeId =>
                ((P \in Range(validParents(allCategories, cat, rows[id].typeId)))
                   <=> (/\ P.id # id
                        /\ P.id \notin Reachable(allCategories, id)
                        /\ (build = "part_002" => P.name # UNCLASSIFIED)))

\* C3 witness: a row whose category has a descendant of the selected type
\* (rejected) while another category of that type is offered.
C3_Witness ==
  \E id \in DOMAIN rows :
    /\ \E d \in Reachable(allCategories, id) :
          FindById(allCategories, d).type_id = rows[id].typeId
    /\ validParents(allCategories, FindById(allCategories, id), rows[id].typeId) # <<>>

\* C8: every category with a parent_id references an existing category of
\* the same type_id.
C8_SameTypeParent ==
  \A i \in DOMAIN categories :
     categories[i].parent_id # NULL =>
        /\ categories[i].parent_id \in Ids(categories)
        /\ FindById(categories, categories[i].parent_id).type_id = categories[i].type_id

\* C10: a save writes nothing before the store's checks of its update have
\* passed, and a save that is rejected leaves nothing it wrote.
C10_GuardBeforeWrite ==
  [][\A s \in saves :
       /\ (s.phase = "uploading" /\ s \notin saves') => files' = files
       /\ (Completed(s) /\ response' # Ok) => s.uploaded \notin files']_vars

\* no element occurs twice in the sequence
NoDuplicates(seq) == \A i, j \in DOMAIN seq : seq[i] = seq[j] => i = j

\* C4: over a forest, getDescendants(id) returns exactly the ids reachable
\* from id by one or more child links, each once and never id itself; it is
\* empty for a category without children and {2, 3} for 1 in 1 <- 2 <- 3.
C4_Descendants ==
  probe.op = "getDescendants" =>
     /\ Range(outDesc) = Reachable(categories, probe.id)
     /\ NoDuplicates(outDesc)
     /\ probe.id \notin Range(outDesc)
     /\ (\A i \in DOMAIN categories : categories[i].parent_id # probe.id) => outDesc = <<>>
     /\ (/\ Len(categories) = 3
         /\ categories[1].parent_id = NULL
         /\ categories[2].parent_id = 1
         /\ categories[3].parent_id = 2
         /\ probe.id = 1) => Range(outDesc) = {2, 3}

\* C4 witness: getDescendants(1) was computed on the chain 1 <- 2 <- 3.
C4_Witness ==
  /\ probe = [op |-> "getDescendants", id |-> 1]
  /\ Len(categories) = 3
  /\ categories[2].parent_id = 1
  /\ categories[3].parent_id = 2
  /\ Range(outDesc) = {2, 3}

\* the selected categories and everything reachable from them by child links
ExpandedSet(cats, S) == S \cup UNION {Reachable(cats, id) : id \in S}

ItemIds(its) == {its[i].id : i \in DOMAIN its}

PassesView(it) ==
  /\ viewFilter = "expenses" => it.amount < 0
  /\ viewFilter = "incomes" => it.amount > 0

\* C5 as stated: for every selection S the query returns exactly the items
\* whose category set intersects S united with the descendants of S.
C5_Original ==
  allCategories # <<>> =>
     ItemIds(queryData) =
        {items[i].id : i \in {j \in DOMAIN items :
            Range(items[j].category_ids)
               \cap ExpandedSet(categories, Range(selectedCategoryIds)) # {}}}

\* C5 amended: expansion yields S united with the descendants of S, and for
\* every non-empty selection S the query returns exactly the items that pass
\* the income/expense filter and whose category set intersects that set.
C5_FilterExpansion ==
  /\ expand(categories, Range(selectedCategoryIds))
        = ExpandedSet(categories, Range(selectedCategoryIds))
  /\ (allCategories # <<>> /\ selectedCategoryIds # <<>>) =>
        ItemIds(queryData) =
           {items[i].id : i \in {j \in DOMAIN items :
               /\ PassesView(items[j])
               /\ Range(items[j].category_ids)
                    \cap ExpandedSet(categories, Range(selectedCategoryIds)) # {}}}

\* C5 witness: the filter is {1} over 1 <- 2 <- 3 and an item tagged only
\* with 3 is returned.
C5_Witness ==
  /\ selectedCategoryIds = <<1>>
  /\ categories[2].parent_id = 1
  /\ categories[3].parent_id = 2
  /\ \E i \in DOMAIN queryData :
        /\ Len(queryData[i].categories) = 1
        /\ queryData[i].categories[1].id = 3

\* C6: with an empty category selection the query returns every item that
\* passes the income/expense filter, with or without categories.
C6_EmptySelection ==
  (allCategories # <<>> /\ selectedCategoryIds = <<>>) =>
     ItemIds(queryData) = {items[i].id : i \in {j \in DOMAIN items : PassesView(items[j])}}

\* C6 witness: nothing is selected and the data holds an item with a
\* category and an item without one.
C6_Witness ==
  /\ allCategories # <<>>
  /\ selectedCategoryIds = <<>>
  /\ \E i, j \in DOMAIN queryData :
        queryData[i].categories = <<>> /\ queryData[j].categories # <<>>

\* the categories on the chain from id to its root, id included
ChainOf(cats, id) == {id} \cup ProperAncestors(cats, id)

WithIconFile(cats, id) == {a \in ChainOf(cats, id) : FindById(cats, a).icon_file # NULL}

Names(cats) == {cats[i].name : i \in DOMAIN cats}

\* C9: the category named UNCLASSIFIED is offered in no pick-list: not in the
\* summary page's filter dropdown, not in a parent select of the editor, not
\* in the payment form's category dropdown.
C9_UnclassifiedHidden ==
  /\ UNCLASSIFIED \notin Names(filterOptions(allCategories, selectedCategoryIds))
  /\ \A id \in DOMAIN rows :
        UNCLASSIFIED \notin
           Names(validParents(allCategories, FindById(allCategories, id), rows[id].typeId))
  /\ UNCLASSIFIED \notin Names(formOptions(categories))

\* ------------------------------------- concurrent updates (SpecRace)
\* The back end handles an update in two steps, its checks and its write,
\* with no lock between them; the editor has several saves in flight and its
\* category list is fetched again some time after a save has succeeded.
InitRace ==
  /\ types = <<[id |-> 1, name |-> StandardName], [id |-> 2, name |-> "other"]>>
  /\ categories \in StandardStores
  /\ files = {}
  /\ allCategories = categories
  /\ build \in Builds
  /\ rows = [id \in Ids(sorted(types, categories)) |-> initialRow(FindById(categories, id))]
  /\ saves = {}
  /\ response = [status |-> "none", detail |-> ""]
  /\ items = <<>>
  /\ viewFilter = "all"
  /\ selectedCategoryIds = <<>>
  /\ selectedDropdownCategory = NULL
  /\ queryData = <<>>
  /\ probe = NoCall
  /\ outDesc = <<>>
  /\ outIcon = NoIcon
  /\ log = <<>>
  /\ location = "/categories"
  /\ form = NoForm
  /\ sent = NothingSent
  /\ searchParams = <<>>
  /\ effects = NoEffects
  /\ cache = <<>>
  /\ outCsv = NoFile

\* the events of one kind in the log
Events(ev) == {i \in DOMAIN log : log[i].ev = ev}

\* the editor renders: no getDescendants call of a row runs forever
Responsive ==
  \A id \in Ids(allCategories) : getDescendants(allCategories, id) # Diverges

\* handleSave of a row without a chosen icon, while other saves are in flight
ClickSaveRace(id) ==
  /\ Responsive
  /\ id \in DOMAIN rows
  /\ \A s \in saves : s.id # id
  /\ Cardinality(Events("send")) < MaxRequests
  /\ LET cat == FindById(allCategories, id)
         n   == Cardinality(Events("send")) + 1
     IN  /\ saves' = saves \cup {[n |-> n, id |-> id, phase |-> "updating",
                                  body |-> saveBody(cat, rows[id], cat.icon_file)]}
         /\ log' = Append(log, [ev |-> "send", n |-> n])
  /\ UNCHANGED <<clientVars, storeVars, allCategories, rows, response, build, pageVars, callVars,
                 location, form, sent>>

\* PUT /categories/{id}, first step: the checks, on the rows stored now
StoreCheck(s) ==
  /\ s \in saves
  /\ s.phase = "updating"
  /\ saves' = (saves \ {s}) \cup
                {[n |-> s.n, id |-> s.id, phase |-> "checked", body |-> s.body,
                  verdict |-> updateResult(types, categories, s.id, s.body)]}
  /\ log' = Append(log, [ev |-> "check", n |-> s.n])
  /\ UNCHANGED <<clientVars, storeVars, allCategories, rows, response, build, pageVars, callVars,
                 location, form, sent>>

\* PUT /categories/{id}, second step: the write if the checks passed, and
\* the response; onSuccess marks the cached category list as outdated
StoreWrite(s) ==
  /\ s \in saves
  /\ s.phase = "checked"
  /\ categories' = IF s.verdict = Ok THEN writeRow(categories, s.id, s.body) ELSE categories
  /\ log' = Append(log, [ev |-> IF s.verdict = Ok THEN "write" ELSE "reject", n |-> s.n])
  /\ response' = s.verdict
  /\ saves' = saves \ {s}
  /\ UNCHANGED <<clientVars, types, files, items, allCategories, rows, build, pageVars, callVars,
                 location, form, sent>>

NextRace ==
  \/ Refetch
  \/ \E id \in Ids(allCategories), p \in {NULL} \cup Ids(allCategories) :
        Responsive /\ SelectParent(id, p)
  \/ \E id \in Ids(allCategories) : ClickSaveRace(id)
  \/ \E s \in saves : StoreCheck(s)
  \/ \E s \in saves : StoreWrite(s)

SpecRace == InitRace /\ [][NextRace]_vars

\* the stored parent relation has a cycle
Cyclic(cats) == \E id \in Ids(cats) : id \in ProperAncestors(cats, id)

Pos(ev, n) == CHOOSE i \in DOMAIN log : log[i] = [ev |-> ev, n |-> n]
Logged(ev, n) == \E i \in DOMAIN log : log[i] = [ev |-> ev, n |-> n]
Finished(n) == Logged("write", n) \/ Logged("reject", n)
FinishedAt(n) == IF Logged("write", n) THEN Pos("write", n) ELSE Pos("reject", n)
Sent == {log[i].n : i \in Events("send")}

\* C11: a cycle is stored only if two requests both wrote and each made its
\* check before the other's write; when of any two requests one has finished
\* (check and write) before the other's check, the store stays acyclic.
C11_Race ==
  /\ Cyclic(categories) =>
        \E a, b \in Sent :
           /\ a # b
           /\ Logged("write", a) /\ Logged("write", b)
           /\ Pos("check", a) < Pos("write", b)
           /\ Pos("check", b) < Pos("write", a)
  /\ (\A a, b \in Sent :
         (a # b /\ Logged("check", a) /\ Logged("check", b)) =>
            \/ (Finished(a) /\ FinishedAt(a) < Pos("check", b))
            \/ (Finished(b) /\ FinishedAt(b) < Pos("check", a)))
       => ~Cyclic(categories)

\* C11 witness: two requests were both checked before either wrote, and the
\* store holds a cycle.
C11_Witness ==
  /\ Cyclic(categories)
  /\ Cardinality(Events("write")) = 2

\* C12: the parent-to-children index the editor computes descendant sets and
\* valid-parent lists from equals the index of the categories stored now.
C12_FreshIndex == childrenMap(allCategories) = childrenMap(categories)

\* ----------------------------------- the store's interface (SpecStore)
\* names a create request may carry
RequestNames == {"Food", "", UNCLASSIFIED}

\* process bootstrap: UNCLASSIFIED is created if no category has that name
bootstrapStore(tps, cats) ==
  IF \E i \in DOMAIN cats : cats[i].name = UNCLASSIFIED THEN cats
  ELSE Append(cats, [id |-> Len(cats) + 1, name |-> UNCLASSIFIED,
                     type_id |-> standardTypeId(tps), parent_id |-> NULL, icon_file |-> NULL])

\* the state after the first bootstrap, with the standard type alone
InitStore ==
  /\ types = <<[id |-> 1, name |-> StandardName]>>
  /\ categories = bootstrapStore(types, <<>>)
  /\ files = {}
  /\ allCategories = <<>>
  /\ rows = <<>>
  /\ saves = {}
  /\ response = [status |-> "none", detail |-> ""]
  /\ build = "CategoryEditPage"
  /\ items = <<>>
  /\ viewFilter = "all"
  /\ selectedCategoryIds = <<>>
  /\ selectedDropdownCategory = NULL
  /\ queryData = <<>>
  /\ probe = NoCall
  /\ outDesc = <<>>
  /\ outIcon = NoIcon
  /\ FlowIdle

\* the back end starts again
Bootstrap ==
  /\ categories' = bootstrapStore(types, categories)
  /\ probe' = [op |-> "bootstrap", id |-> NULL]
  /\ response' = Ok
  /\ UNCHANGED <<clientVars, flowVars, types, files, items, allCategories, rows, saves, build,
                 pageVars, outDesc, outIcon>>

\* POST /categories with any body (the Add button of the editor and the
\* payment form send a trimmed non-empty name and parent_id null)
CreateRequest(body) ==
  /\ Len(categories) < MaxCategories
  /\ categories' = createStore(types, categories, body)
  /\ response' = createResult(types, categories, body)
  /\ probe' = [op |-> "create", id |-> NULL, body |-> body]
  /\ UNCHANGED <<clientVars, flowVars, types, files, items, allCategories, rows, saves, build,
                 pageVars, outDesc, outIcon>>

\* PUT /categories/{id} with any body
UpdateRequest(id, body) ==
  /\ categories' = updateStore(types, categories, id, body)
  /\ response' = updateResult(types, categories, id, body)
  /\ probe' = [op |-> "update", id |-> id, body |-> body]
  /\ UNCHANGED <<clientVars, flowVars, types, files, items, allCategories, rows, saves, build,
                 pageVars, outDesc, outIcon>>

\* handleAddCategoryType: POST /category-types
CreateCategoryType ==
  /\ Len(types) < MaxTypes
  /\ types' = Append(types, [id |-> Len(types) + 1, name |-> "other"])
  /\ probe' = [op |-> "createType", id |-> NULL]
  /\ response' = Ok
  /\ UNCHANGED <<clientVars, flowVars, categories, files, items, allCategories, rows, saves, build,
                 pageVars, outDesc, outIcon>>

NextStore ==
  \/ Bootstrap
  \/ \E n \in RequestNames, t \in 1..(MaxTypes + 1), p \in 0..(Len(categories) + 1) :
        CreateRequest([name |-> n, type_id |-> t, parent_id |-> p])
  \/ \E id \in 1..(Len(categories) + 1), t \in 1..(MaxTypes + 1),
        p \in 0..(Len(categories) + 1) :
        UpdateRequest(id, [parent_id |-> p, type_id |-> t, icon_file |-> NULL])
  \/ CreateCategoryType

SpecStore == InitStore /\ [][NextStore]_vars

\* the body names no existing type, or a parent that does not exist
BadReference(body) ==
  \/ body.type_id \notin TypeIds(types)
  \/ (body.parent_id # NULL /\ body.parent_id \notin Ids(categories))

\* C13: a create with an empty name, an unknown type_id or a parent_id that
\* names no category, and an update of a category with an unknown type_id or
\* such a parent_id, is answered with a ValidationError and leaves the
\* stored categories as they were.
C13_InvalidRejected ==
  [][(/\ probe'.op \in {"create", "update"}
      /\ probe'.op = "update" => probe'.id \in Ids(categories)
      /\ \/ BadReference(probe'.body)
         \/ (probe'.op = "create" /\ probe'.body.name = ""))
        => (response'.status = "ValidationError" /\ categories' = categories)]_vars

\* C13 witness: a create with an empty name was answered with a
\* ValidationError while the store holds a category a user created.
C13_Witness ==
  /\ probe.op = "create"
  /\ probe.body.name = ""
  /\ response = ValidationError("empty name")
  /\ Len(categories) = 2

\* C16: exactly one category named UNCLASSIFIED is stored.
C16_OneUnclassified ==
  Cardinality({i \in DOMAIN categories : categories[i].name = UNCLASSIFIED}) = 1

\* C17: no step removes a category id or a category-type id, and an update
\* of one category leaves every other category's row as it was.
C17_NothingRemoved ==
  [][/\ Ids(categories) \subseteq Ids(categories')
     /\ TypeIds(types) \subseteq TypeIds(types')
     /\ probe'.op = "update" =>
           /\ Len(categories') = Len(categories)
           /\ \A i \in DOMAIN categories :
                 categories[i].id # probe'.id => categories'[i] = categories[i]]_vars

\* C17 witness: an accepted update has moved a category that has a child
\* under another one and into the second type.
C17_Witness ==
  /\ probe.op = "update"
  /\ response = Ok
  /\ Len(types) = 2
  /\ probe.id \in Ids(categories)
  /\ probe.body.type_id = 2
  /\ \E i \in DOMAIN categories : categories[i].parent_id = probe.id

\* ------------------------------ engine calls on any stored data (SpecMalformed)
\* every store of MaxCategories standard-type categories, whatever its
\* parent links: forests and stores with a cycle (as concurrent updates
\* leave them); no category is its own parent
AnyStores ==
  {MakeStore(f) : f \in {g \in [1..MaxCategories ->
                                  [parent_id : 0..MaxCategories, type_id : {1}, icon : BOOLEAN]] :
                            \A i \in 1..MaxCategories : g[i].parent_id # i}}

InitMalformed ==
  /\ types = <<[id |-> 1, name |-> StandardName], [id |-> 2, name |-> "other"]>>
  /\ categories \in AnyStores
  /\ files = {categories[i].icon_file : i \in DOMAIN categories} \ {NULL}
  /\ allCategories = categories
  /\ rows = <<>>
  /\ saves = {}
  /\ response = [status |-> "none", detail |-> ""]
  /\ build \in Builds
  /\ items = <<>>
  /\ viewFilter = "all"
  /\ selectedCategoryIds = <<>>
  /\ selectedDropdownCategory = NULL
  /\ queryData = <<>>
  /\ probe = NoCall
  /\ outDesc = <<>>
  /\ outIcon = NoIcon
  /\ FlowIdle

SpecMalformed == InitMalformed /\ [][NextEngine]_vars

\* C14: on every index, also one with a cycle, getDescendants returns, and
\* no id is twice in its result.
C14_TraversalTerminates ==
  probe.op = "getDescendants" => (outDesc # Diverges /\ NoDuplicates(outDesc))

\* C15: on every set of stored categories, also one with a cycle, icon
\* resolution returns after at most as many parent steps as there are
\* categories.
C15_IconTerminates ==
  probe.op = "iconUrl" => outIcon # IconDiverges

\* ------------------------------------------- payment form (SpecForm)
\* decimal numerals of the amounts 0..9
Digits == <<"0", "1", "2", "3", "4", "5", "6", "7", "8", "9">>

\* Number.prototype.toString of a non-negative amount
numberToString(n) == Digits[n + 1]

\* parseFloat: <<n>> for a numeral, <<>> for NaN
parseFloat(str) ==
  IF \E n \in 0..9 : Digits[n + 1] = str
  THEN <<CHOOSE n \in 0..9 : Digits[n + 1] = str>>
  ELSE <<>>

abs(n) == IF n < 0 THEN -n ELSE n

\* what the user can type into the amount and description inputs
AmountInputs == {"", "0", "5"}
DescriptionInputs == {"", " rent "}

\* String.prototype.trim on the descriptions of the model
trim(str) == IF str = " rent " THEN "rent" ELSE str

\* a description of a request or a stored item: <<>> is null
NoDescription == <<>>

\* the stored recipients
RecipientIds == {1}

\* useState initial values of PaymentItemForm; initialId is initialData?.id,
\* pristine records that no input was changed since the form was filled
FreshForm(initialId) ==
  [mounted |-> TRUE, initialId |-> initialId, amount |-> "", isPositive |-> TRUE,
   periodic |-> FALSE, paymentDescription |-> "", selectedRecipientId |-> NULL,
   selectedCategoryId |-> NULL, error |-> FALSE, pristine |-> TRUE]

\* useEffect on [initialData]: the form is filled from the fetched item
prefill(f, initialData) ==
  [f EXCEPT
     !.amount = numberToString(abs(initialData.amount)),
     !.isPositive = (initialData.amount >= 0),
     !.periodic = initialData.periodic,
     !.paymentDescription =
        IF initialData.description # NoDescription THEN initialData.description[1] ELSE "",
     !.selectedRecipientId =
        IF initialData.recipient_id # NULL THEN initialData.recipient_id ELSE @,
     !.selectedCategoryId =
        IF "category_ids" \in DOMAIN initialData
        THEN (IF Len(initialData.category_ids) > 0 THEN initialData.category_ids[1] ELSE @)
        ELSE @]

\* a form that submits the magnitude whatever the toggle shows
paymentDataUnsigned(f) ==
  [id |-> f.initialId,
   amount |-> parseFloat(f.amount)[1],
   periodic |-> f.periodic,
   description |-> IF trim(f.paymentDescription) # "" THEN <<trim(f.paymentDescription)>>
                   ELSE NoDescription,
   recipient_id |-> f.selectedRecipientId,
   category_ids |-> IF f.selectedCategoryId # NULL THEN <<f.selectedCategoryId>> ELSE <<>>]

\* handleSubmit: the payment data built from the form (the amount is valid)
paymentData(f) ==
  [id |-> f.initialId,
   amount |-> IF f.isPositive THEN parseFloat(f.amount)[1] ELSE -parseFloat(f.amount)[1],
   periodic |-> f.periodic,
   description |-> IF trim(f.paymentDescription) # "" THEN <<trim(f.paymentDescription)>>
                   ELSE NoDescription,
   recipient_id |-> f.selectedRecipientId,
   category_ids |-> IF f.selectedCategoryId # NULL THEN <<f.selectedCategoryId>> ELSE <<>>]

\* a back end that stores the category ids as they were sent
withDefaultTagNone(cats, category_ids) == category_ids

\* back end: an item sent without a category gets the default tag
withDefaultTag(cats, category_ids) ==
  IF category_ids # <<>> THEN category_ids
  ELSE <<cats[CHOOSE i \in DOMAIN cats :
                 cats[i].name = UNCLASSIFIED /\ \A j \in 1..(i - 1) : cats[j].name # UNCLASSIFIED].id>>

\* POST /payment-items
createItem(cats, its, body) ==
  Append(its, [id |-> Len(its) + 1, amount |-> body.amount, periodic |-> body.periodic,
               description |-> body.description, recipient_id |-> body.recipient_id,
               category_ids |-> withDefaultTag(cats, body.category_ids)])

\* PUT /payment-items/{id}
updateItem(cats, its, body) ==
  [i \in DOMAIN its |->
     IF its[i].id = body.id
     THEN [id |-> body.id, amount |-> body.amount, periodic |-> body.periodic,
           description |-> body.description, recipient_id |-> body.recipient_id,
           category_ids |-> withDefaultTag(cats, body.category_ids)]
     ELSE its[i]]

\* GET /payment-items/{id}: a PaymentItem, its categories joined in
getPaymentItem(cats, its, id) ==
  LET it == its[CHOOSE i \in DOMAIN its : its[i].id = id]
  IN  [id |-> it.id, amount |-> it.amount, periodic |-> it.periodic,
       description |-> it.description, recipient_id |-> it.recipient_id,
       categories |-> [j \in DOMAIN it.category_ids |-> FindById(cats, it.category_ids[j])]]

\* the deployment the form runs against: the default tag and one category
FormStore ==
  Append(bootstrapStore(<<[id |-> 1, name |-> StandardName]>>, <<>>),
         [id |-> 2, name |-> "Food", type_id |-> 1, parent_id |-> NULL, icon_file |-> NULL])

InitForm ==
  /\ types = <<[id |-> 1, name |-> StandardName]>>
  /\ categories = FormStore
  /\ files = {}
  /\ allCategories = <<>>
  /\ rows = <<>>
  /\ saves = {}
  /\ response = [status |-> "none", detail |-> ""]
  /\ build = "CategoryEditPage"
  /\ items = <<>>
  /\ viewFilter = "all"
  /\ selectedCategoryIds = <<>>
  /\ selectedDropdownCategory = NULL
  /\ queryData = <<>>
  /\ probe = NoCall
  /\ outDesc = <<>>
  /\ outIcon = NoIcon
  /\ FlowIdle

Pending == sent.status = "pending"

\* SummaryPage.handleAdd: navigate('/add')
handleAdd ==
  /\ location = "/" /\ ~Pending
  /\ location' = "/add"
  /\ form' = FreshForm(NULL)
  /\ UNCHANGED <<clientVars, storeVars, editorVars, pageVars, callVars, log, sent>>

\* the user enters the address of a route
VisitUrl(path) ==
  /\ ~Pending /\ path # location
  /\ location' = path
  /\ form' = IF path = "/add" THEN FreshForm(NULL) ELSE NoForm
  /\ UNCHANGED <<clientVars, storeVars, editorVars, pageVars, callVars, log, sent>>

\* the route /payment/:id/edit: EditItemPage fetches the item and shows the form
OpenEdit(id) ==
  /\ ~Pending /\ location # "/payment/:id/edit"
  /\ \E i \in DOMAIN items : items[i].id = id
  /\ location' = "/payment/:id/edit"
  /\ form' = prefill(FreshForm(id), getPaymentItem(categories, items, id))
  /\ UNCHANGED <<clientVars, storeVars, editorVars, pageVars, callVars, log, sent>>

\* an input of the form changes one state variable
Touch(field, value) ==
  /\ form.mounted /\ form[field] # value
  /\ form' = [form EXCEPT ![field] = value, !.pristine = FALSE]
  /\ UNCHANGED <<clientVars, storeVars, editorVars, pageVars, callVars, log, location, sent>>

SetAmount(a) == Touch("amount", a)
SetIsPositive(b) == Touch("isPositive", b)
SetPaymentDescription(d) == Touch("paymentDescription", d)
SetPeriodic(b) == Touch("periodic", b)
handleRecipientSelect(r) == Touch("selectedRecipientId", r)
SetSelectedCategoryId(c) == Touch("selectedCategoryId", c)

\* the page's handleSubmit up to its await: AddItemPage sends a create;
\* EditItemPage returns if the data has no numeric id, else sends an update
onSubmit(data) ==
  IF location = "/add"
  THEN [status |-> "pending", op |-> "create", data |-> data, pristine |-> form.pristine]
  ELSE IF data.id = NULL THEN sent
  ELSE [status |-> "pending", op |-> "update", data |-> data, pristine |-> form.pristine]

\* PaymentItemForm.handleSubmit, then the page's handleSubmit up to the request
handleSubmit ==
  /\ form.mounted /\ ~Pending /\ form.amount # ""
  /\ form.initialId = NULL => Len(items) < MaxItems
  /\ LET numericAmount == parseFloat(form.amount)
     IN  IF numericAmount = <<>> \/ numericAmount[1] <= 0
         THEN /\ form' = [form EXCEPT !.error = TRUE]
              /\ sent' = sent
         ELSE /\ form' = [form EXCEPT !.error = FALSE]
              /\ sent' = onSubmit(paymentData(form))
  /\ UNCHANGED <<clientVars, storeVars, editorVars, pageVars, callVars, log, location>>

\* AddItemPage.handleSubmit after the await: success navigates, failure is logged
CreateResponse(ok) ==
  /\ Pending /\ sent.op = "create"
  /\ IF ok
     THEN /\ items' = createItem(categories, items, sent.data)
          /\ location' = "/"
          /\ form' = NoForm
          /\ sent' = [status |-> "success", op |-> "create"]
     ELSE /\ sent' = [status |-> "error", op |-> "create"]
          /\ UNCHANGED <<items, location, form>>
  /\ UNCHANGED <<clientVars, types, categories, files, editorVars, pageVars, callVars, log>>

\* an edit page that goes to the summary page whatever the outcome
UpdateResponseNavigates(ok) ==
  /\ Pending /\ sent.op = "update"
  /\ items' = IF ok THEN updateItem(categories, items, sent.data) ELSE items
  /\ location' = "/"
  /\ form' = NoForm
  /\ sent' = [status |-> IF ok THEN "success" ELSE "error", op |-> "update"]
  /\ UNCHANGED <<clientVars, types, categories, files, editorVars, pageVars, callVars, log>>

\* EditItemPage.handleSubmit after the await
UpdateResponse(ok) ==
  /\ Pending /\ sent.op = "update"
  /\ IF ok
     THEN /\ items' = updateItem(categories, items, sent.data)
          /\ location' = "/"
          /\ form' = NoForm
          /\ sent' = [status |-> "success", op |-> "update"]
     ELSE /\ sent' = [status |-> "error", op |-> "update"]
          /\ UNCHANGED <<items, location, form>>
  /\ UNCHANGED <<clientVars, types, categories, files, editorVars, pageVars, callVars, log>>

\* AddSuccessPage.handleBack: navigate('/')
handleBack ==
  /\ location = "/add-success"
  /\ location' = "/"
  /\ UNCHANGED <<clientVars, storeVars, editorVars, pageVars, callVars, log, form, sent>>

NextForm ==
  \/ handleAdd
  \/ \E path \in {"/", "/add", "/add-success"} : VisitUrl(path)
  \/ \E id \in 1..MaxItems : OpenEdit(id)
  \/ \E a \in AmountInputs : SetAmount(a)
  \/ \E b \in BOOLEAN : SetIsPositive(b)
  \/ \E d \in DescriptionInputs : SetPaymentDescription(d)
  \/ \E b \in BOOLEAN : SetPeriodic(b)
  \/ \E r \in RecipientIds \cup {NULL} : handleRecipientSelect(r)
  \/ \E c \in Ids(formOptions(categories)) \cup {NULL} : SetSelectedCategoryId(c)
  \/ handleSubmit
  \/ \E ok \in BOOLEAN : CreateResponse(ok)
  \/ \E ok \in BOOLEAN : UpdateResponse(ok)
  \/ handleBack

SpecForm == InitForm /\ [][NextForm]_vars

\* ------------------------------------------- claims on the payment form
UnclassifiedId(cats) == cats[CHOOSE i \in DOMAIN cats : cats[i].name = UNCLASSIFIED].id

C19_Confirmation ==
  [][/\ (Pending /\ sent.op = "create" /\ sent'.status = "success") => location' = "/add-success"
     /\ (Pending /\ sent.op = "create" /\ sent'.status = "error") => location' = "/add"
     /\ handleBack => location' = "/"]_vars

\* the stored item an update request addresses
Stored(id) == items[CHOOSE i \in DOMAIN items : items[i].id = id]

\* C20: an item opened in the edit page and submitted without changing any
\* field sends an update whose amount, periodic flag, description,
\* recipient_id and category ids equal those of the stored item.
C20_UnchangedRoundTrip ==
  (Pending /\ sent.op = "update" /\ sent.pristine) =>
     /\ sent.data.amount = Stored(sent.data.id).amount
     /\ sent.data.periodic = Stored(sent.data.id).periodic
     /\ sent.data.description = Stored(sent.data.id).description
     /\ sent.data.recipient_id = Stored(sent.data.id).recipient_id
     /\ sent.data.category_ids = Stored(sent.data.id).category_ids

\* ------------------------------- summary page, render by render (SpecPage)
\* parseInt(str, 10): <<n>> for a numeral, <<>> for NaN
parseInt(str) ==
  IF \E n \in 0..9 : Digits[n + 1] = str
  THEN <<CHOOSE n \in 0..9 : Digits[n + 1] = str>>
  ELSE <<>>

\* searchParams.getAll('categories').map(id => parseInt(id, 10)).filter(id => !isNaN(id))
urlCategoryIds(params) ==
  LET numeric == SelectSeq(params, LAMBDA str : parseInt(str) # <<>>)
  IN  [i \in DOMAIN numeric |-> parseInt(numeric[i])[1]]

\* a comparison that never reports a change
hasChangedNever(currentCategoryParams, selected) == FALSE

\* the state-to-URL effect: hasChanged
hasChanged(currentCategoryParams, selected) ==
  \/ Len(currentCategoryParams) # Len(selected)
  \/ ~(\A i \in DOMAIN currentCategoryParams : currentCategoryParams[i] \in Range(selected))

\* the state-to-URL effect: the 'categories' parameters of newSearchParams
newCategoryParams(selected) == [i \in DOMAIN selected |-> numberToString(selected[i])]

\* [...categoryIds].sort((a, b) => a - b)
RECURSIVE sortAscending(_)
sortAscending(ids) ==
  IF ids = <<>> THEN <<>>
  ELSE LET rest == sortAscending(Tail(ids))
           before == SelectSeq(rest, LAMBDA x : x < Head(ids))
           after == SelectSeq(rest, LAMBDA x : x >= Head(ids))
       IN  before \o <<Head(ids)>> \o after

\* usePaymentItems: the query key
queryKey(view, categoryIds) ==
  [expenseOnly |-> (view = "expenses"), incomeOnly |-> (view = "incomes"),
   ids |-> sortAscending(categoryIds)]

\* a sort that leaves the data in the order of the response
sortedAsDelivered(data) == data

\* sorted: [...data].sort((a, b) => date(b) - date(a)), a stable sort
RECURSIVE sortedByDate(_)
sortedByDate(data) ==
  IF data = <<>> THEN <<>>
  ELSE LET rest == sortedByDate(Tail(data))
           before == SelectSeq(rest, LAMBDA it : it.date > Head(data).date)
           after == SelectSeq(rest, LAMBDA it : it.date <= Head(data).date)
       IN  before \o <<Head(data)>> \o after

\* total: data.reduce((sum, item) => sum + item.amount, 0)
RECURSIVE total(_)
total(data) == IF data = <<>> THEN 0 ELSE total(SubSeq(data, 1, Len(data) - 1)) + data[Len(data)].amount

\* the categories and the payment items the page is run against
PageStore ==
  <<[id |-> 1, name |-> "Food", type_id |-> 1, parent_id |-> NULL, icon_file |-> NULL],
    [id |-> 2, name |-> "Restaurants", type_id |-> 1, parent_id |-> 1, icon_file |-> NULL],
    [id |-> 3, name |-> "Salary", type_id |-> 1, parent_id |-> NULL, icon_file |-> NULL]>>

PageDates == {1, 2}

PageItems ==
  {<<[id |-> 1, amount |-> -5, date |-> 1, category_ids |-> <<2>>],
     [id |-> 2, amount |-> 7, date |-> d, category_ids |-> <<3>>],
     [id |-> 3, amount |-> -3, date |-> 2, category_ids |-> <<1>>]>> : d \in PageDates}

\* the 'categories' parameters of the addresses a user enters
TypedParams == {<<>>, <<"2">>, <<"1", "1">>, <<"x", "3">>}

\* the effects of SummaryPage, in the order of their declaration
UrlEffect == "url"
StateEffect == "state"
QueryEffect == "query"

\* the effects due after a commit: an effect runs when a dependency changed
dueAfter(view, params, selected, selectedSet) ==
  (IF params # searchParams \/ view # viewFilter THEN {UrlEffect} ELSE {})
  \cup (IF selectedSet THEN {StateEffect} ELSE {})
  \cup (IF queryKey(view, selected) # queryKey(viewFilter, selectedCategoryIds)
        THEN {QueryEffect} ELSE {})

Idle == effects.due = {} /\ effects.sel = <<>> /\ effects.url = <<>>

InitPage ==
  /\ types = <<[id |-> 1, name |-> StandardName]>>
  /\ categories = PageStore
  /\ files = {}
  /\ allCategories = PageStore
  /\ rows = <<>>
  /\ saves = {}
  /\ response = [status |-> "none", detail |-> ""]
  /\ build = "CategoryEditPage"
  /\ items \in PageItems
  /\ viewFilter = "all"
  /\ selectedCategoryIds = <<>>
  /\ selectedDropdownCategory = NULL
  /\ queryData = <<>>
  /\ probe = NoCall
  /\ outDesc = <<>>
  /\ outIcon = NoIcon
  /\ log = <<>>
  /\ location = "/"
  /\ form = NoForm
  /\ sent = NothingSent
  /\ searchParams = <<>>
  /\ effects = [due |-> {UrlEffect, StateEffect, QueryEffect}, sel |-> <<>>, url |-> <<>>,
                cause |-> "mount"]
  /\ cache = <<>>
  /\ outCsv = NoFile

\* the user enters an address of the summary page: the page is mounted anew,
\* useState takes the ids of the URL, every effect runs
EnterUrl(view, params) ==
  /\ Idle
  /\ viewFilter' = view
  /\ searchParams' = params
  /\ selectedCategoryIds' = urlCategoryIds(params)
  /\ selectedDropdownCategory' = NULL
  /\ queryData' = <<>>
  /\ cache' = <<>>
  /\ sent' = NothingSent
  /\ effects' = [due |-> {UrlEffect, StateEffect, QueryEffect}, sel |-> <<>>, url |-> <<>>,
                 cause |-> "mount"]
  /\ UNCHANGED <<storeVars, editorVars, callVars, log, location, form, outCsv>>

\* a handler has set selectedCategoryIds: the render that follows is committed
SetSelected(selected, cause) ==
  /\ selectedCategoryIds' = selected
  /\ effects' = [due |-> dueAfter(viewFilter, searchParams, selected, TRUE),
                 sel |-> <<>>, url |-> <<>>, cause |-> cause]
  /\ UNCHANGED <<storeVars, editorVars, callVars, flowVars, viewFilter, queryData,
                 searchParams, cache, outCsv>>

\* SummaryPage.handleAddCategory
ClickAddCategory ==
  /\ Idle
  /\ selectedDropdownCategory # NULL
  /\ selectedDropdownCategory \notin Range(selectedCategoryIds)
  /\ selectedDropdownCategory' = NULL
  /\ SetSelected(Append(selectedCategoryIds, selectedDropdownCategory), "add")

\* SummaryPage.handleRemoveCategory
ClickRemoveCategory(id) ==
  /\ Idle
  /\ id \in Range(selectedCategoryIds) \cap Ids(allCategories)
  /\ SetSelected(SelectSeq(selectedCategoryIds, LAMBDA x : x # id), "remove")
  /\ UNCHANGED selectedDropdownCategory

\* SummaryPage.handleResetFilters
ClickReset ==
  /\ Idle
  /\ Range(selectedCategoryIds) \cap Ids(allCategories) # {}
  /\ SetSelected(<<>>, "reset")
  /\ UNCHANGED selectedDropdownCategory

\* onChange of the category-filter dropdown
PickDropdownCategory(id) ==
  /\ Idle
  /\ SelectDropdownCategory(id)

\* App.handleGlobalNavFilterChange: navigate('/') or navigate('/?filter=...')
NavFilterChange(filter) ==
  /\ Idle
  /\ viewFilter' = filter
  /\ searchParams' = <<>>
  /\ effects' = [due |-> dueAfter(filter, <<>>, selectedCategoryIds, FALSE),
                 sel |-> <<>>, url |-> <<>>, cause |-> "filter"]
  /\ UNCHANGED <<storeVars, editorVars, callVars, flowVars, selectedCategoryIds,
                 selectedDropdownCategory, queryData, cache, outCsv>>

\* effect on [searchParams]: setSelectedCategoryIds(urlCategoryIds)
RunUrlEffect ==
  /\ UrlEffect \in effects.due
  /\ effects' = [effects EXCEPT !.due = @ \ {UrlEffect},
                                !.sel = <<urlCategoryIds(searchParams)>>]
  /\ UNCHANGED <<storeVars, editorVars, pageVars, callVars, flowVars, searchParams, cache, outCsv>>

\* effect on [selectedCategoryIds]: setSearchParams(newSearchParams) if hasChanged
RunStateEffect ==
  /\ StateEffect \in effects.due /\ UrlEffect \notin effects.due
  /\ effects' = [effects EXCEPT !.due = @ \ {StateEffect},
                                !.url = IF hasChanged(urlCategoryIds(searchParams), selectedCategoryIds)
                                        THEN <<newCategoryParams(selectedCategoryIds)>> ELSE @]
  /\ UNCHANGED <<storeVars, editorVars, pageVars, callVars, flowVars, searchParams, cache, outCsv>>

\* useQuery: the query of the committed render is fetched
RunQueryEffect ==
  /\ effects.due = {QueryEffect}
  /\ effects' = [effects EXCEPT !.due = {}]
  /\ sent' = [status |-> "pending", op |-> "query",
              data |-> [view |-> viewFilter, categoryIds |-> selectedCategoryIds]]
  /\ UNCHANGED <<storeVars, editorVars, pageVars, callVars, log, location, form,
                 searchParams, cache, outCsv>>

\* the state updates the effects made are applied: the next render is committed
Rerender ==
  /\ effects.due = {} /\ ~Idle
  /\ LET selected == IF effects.sel # <<>> THEN effects.sel[1] ELSE selectedCategoryIds
         params == IF effects.url # <<>> THEN effects.url[1] ELSE searchParams
     IN  /\ selectedCategoryIds' = selected
         /\ searchParams' = params
         /\ effects' = [due |-> dueAfter(viewFilter, params, selected, effects.sel # <<>>),
                        sel |-> <<>>, url |-> <<>>, cause |-> effects.cause]
  /\ UNCHANGED <<storeVars, editorVars, callVars, flowVars, viewFilter,
                 selectedDropdownCategory, queryData, cache, outCsv>>

\* GET /payment-items answers; placeholderData keeps the previous data until then
QueryResponse(ok) ==
  /\ Idle
  /\ sent.status = "pending" /\ sent.op = "query"
  /\ IF ok
     THEN /\ queryData' = usePaymentItems(sent.data.view, sent.data.categoryIds)
          /\ cache' = <<queryKey(sent.data.view, sent.data.categoryIds)>>
          /\ sent' = [sent EXCEPT !.status = "success"]
     ELSE /\ sent' = [sent EXCEPT !.status = "error"]
          /\ UNCHANGED <<queryData, cache>>
  /\ UNCHANGED <<storeVars, editorVars, callVars, log, location, form, viewFilter,
                 selectedCategoryIds, selectedDropdownCategory, searchParams, effects, outCsv>>

NextPage ==
  \/ \E view \in {"all", "expenses"}, params \in TypedParams : EnterUrl(view, params)
  \/ \E id \in {NULL} \cup Ids(allCategories) : PickDropdownCategory(id)
  \/ ClickAddCategory
  \/ \E id \in Ids(allCategories) : ClickRemoveCategory(id)
  \/ ClickReset
  \/ \E filter \in {"all", "expenses", "incomes"} : NavFilterChange(filter)
  \/ RunUrlEffect
  \/ RunStateEffect
  \/ RunQueryEffect
  \/ Rerender
  \/ \E ok \in BOOLEAN : QueryResponse(ok)

SpecPage == InitPage /\ [][NextPage]_vars

\* React runs the effects that are due and the renders they schedule
EffectStep == RunUrlEffect \/ RunStateEffect \/ RunQueryEffect \/ Rerender

SpecPageFair == SpecPage /\ WF_vars(EffectStep)

\* ------------------------------------------- claims on the summary page
\* what the page lists: nothing while loading or after an error
Listed ==
  IF sent.status = "error" \/ cache = <<>> THEN <<>> ELSE sortedByDate(queryData)

ListShown == sent.status # "error" /\ cache # <<>>

NonIncreasing(list) == \A i, j \in DOMAIN list : i < j => list[i].date >= list[j].date

\* what the back end returns for the filters the page holds now
CurrentData == usePaymentItems(viewFilter, selectedCategoryIds)

RECURSIVE SumOfAmounts(_)
SumOfAmounts(list) == IF list = <<>> THEN 0 ELSE Head(list).amount + SumOfAmounts(Tail(list))

\* the delivered data is the response to the query of the current filters
Answered == cache = <<queryKey(viewFilter, selectedCategoryIds)>>

\* C21 as stated: whenever the list is shown it holds exactly the items
\* returned for the current filters, in non-increasing order of date, and
\* the SUM row is the sum of the amounts of the listed items.
C21_Original ==
  (Idle /\ ListShown) =>
     /\ ItemIds(Listed) = ItemIds(CurrentData) /\ Len(Listed) = Len(CurrentData)
     /\ NonIncreasing(Listed)
     /\ total(queryData) = SumOfAmounts(Listed)

\* C21 amended: the list holds exactly the items of the data last delivered,
\* in non-increasing order of date, and the SUM row is the sum of their
\* amounts; that data is the response for the current filters once the query
\* for them has answered, and until then (a request is pending) it is the
\* response for the filters shown before.
C21_ListAndSum ==
  (Idle /\ ListShown) =>
     /\ ItemIds(Listed) = ItemIds(queryData) /\ Len(Listed) = Len(queryData)
     /\ NonIncreasing(Listed)
     /\ total(queryData) = SumOfAmounts(Listed)
     /\ Answered => (ItemIds(Listed) = ItemIds(CurrentData) /\ Len(Listed) = Len(CurrentData))
     /\ ~Answered => sent.status = "pending"

\* C21 witness: a category filter is set, its query has answered, and the
\* list shows two items in another order than the response had them.
C21_Witness ==
  /\ Idle /\ ListShown /\ Answered
  /\ selectedCategoryIds # <<>>
  /\ Len(Listed) >= 2
  /\ Listed # queryData

\* ------------------------------------------- claims on the category editor
\* C22: whenever Save can be pressed for a category C, the parent id Save
\* would send is null or a category currently listed as a valid parent of C
\* (of the type selected for C, not C, not a descendant of C).
C22_SendableParent ==
  \A id \in DOMAIN rows :
     id \in Ids(allCategories) =>
        \/ rows[id].parentId = NULL
        \/ rows[id].parentId \in
             Ids(validParents(allCategories, FindById(allCategories, id), rows[id].typeId))

C24_FilterClearsCategories ==
  /\ [][/\ (\E filter \in {"all", "expenses", "incomes"} : NavFilterChange(filter))
             => searchParams' = <<>>
        /\ (effects.cause = "filter" /\ RunQueryEffect) => sent'.data.categoryIds = <<>>]_vars
  /\ []((Idle /\ effects.cause = "filter") => selectedCategoryIds = <<>>)

\* ------------------------------------ cached category queries (SpecCache)
AllCategoriesKey == [name |-> "all-categories", arg |-> NULL]
ByTypeKey(typeId) == [name |-> "categories-by-type", arg |-> typeId]
DescendantsKey(id) == [name |-> "category-descendants", arg |-> id]
TreeKey(id) == [name |-> "category-tree", arg |-> id]

\* the category queries of hooks.ts a component can hold (the statement
\* checked here names no category-tree query, so none is cached)
QueryKeys ==
  {AllCategoriesKey} \cup {ByTypeKey(t) : t \in 1..MaxTypes}
                     \cup {DescendantsKey(id) : id \in 1..MaxCategories}

\* what the back end answers to the query of a key
serverResult(cats, key) ==
  IF key.name = "all-categories" THEN cats
  ELSE IF key.name = "categories-by-type" THEN listByType(cats, key.arg)
  ELSE SelectSeq(cats, LAMBDA c : c.id \in descendantsOf(cats, key.arg))

NotCached == [held |-> FALSE, invalid |-> FALSE, data |-> <<>>]

\* queryClient.invalidateQueries({ queryKey }) for each key of the set
invalidated(keys) ==
  [k \in QueryKeys |-> IF k \in keys /\ cache[k].held THEN [cache[k] EXCEPT !.invalid = TRUE]
                       ELSE cache[k]]

InitCache ==
  /\ types = <<[id |-> 1, name |-> StandardName], [id |-> 2, name |-> "other"]>>
  /\ categories =
       <<[id |-> 1, name |-> "Food", type_id |-> 1, parent_id |-> NULL, icon_file |-> NULL],
         [id |-> 2, name |-> "Restaurants", type_id |-> 1, parent_id |-> 1, icon_file |-> NULL]>>
  /\ files = {}
  /\ allCategories = <<>>
  /\ rows = <<>>
  /\ saves = {}
  /\ response = [status |-> "none", detail |-> ""]
  /\ build = "CategoryEditPage"
  /\ items = <<>>
  /\ viewFilter = "all"
  /\ selectedCategoryIds = <<>>
  /\ selectedDropdownCategory = NULL
  /\ queryData = <<>>
  /\ probe = NoCall
  /\ outDesc = <<>>
  /\ outIcon = NoIcon
  /\ log = <<>>
  /\ location = "/categories"
  /\ form = NoForm
  /\ sent = NothingSent
  /\ searchParams = <<>>
  /\ effects = NoEffects
  /\ cache = [k \in QueryKeys |-> NotCached]
  /\ outCsv = NoFile

\* useQuery: a query that is not cached, or was invalidated, is fetched
FetchQuery(key) ==
  /\ ~cache[key].held \/ cache[key].invalid
  /\ key.name = "category-descendants" => key.arg \in Ids(categories)
  /\ cache' = [cache EXCEPT ![key] = [held |-> TRUE, invalid |-> FALSE,
                                      data |-> serverResult(categories, key)]]
  /\ UNCHANGED <<storeVars, editorVars, pageVars, callVars, flowVars, searchParams, effects, outCsv>>

\* useCreateCategory: POST /categories, then onSuccess
CreateCategoryMutation(body) ==
  /\ Len(categories) < MaxCategories
  /\ Len(log) < MaxRequests
  /\ log' = Append(log, [ev |-> "create", n |-> Len(log) + 1])
  /\ categories' = createStore(types, categories, body)
  /\ response' = createResult(types, categories, body)
  /\ cache' = IF createResult(types, categories, body) = Ok
              THEN invalidated({ByTypeKey(body.type_id), AllCategoriesKey}
                               \cup (IF body.parent_id # NULL THEN {TreeKey(body.parent_id)} ELSE {}))
              ELSE cache
  /\ UNCHANGED <<types, files, items, allCategories, rows, saves, build, pageVars, callVars,
                 location, form, sent, searchParams, effects, outCsv>>

\* useUpdateCategory(id): PUT /categories/{id}, then onSuccess
UpdateCategoryMutation(id, body) ==
  /\ id \in Ids(categories)
  /\ Len(log) < MaxRequests
  /\ log' = Append(log, [ev |-> "update", n |-> Len(log) + 1])
  /\ categories' = updateStore(types, categories, id, body)
  /\ response' = updateResult(types, categories, id, body)
  /\ cache' = IF updateResult(types, categories, id, body) = Ok
              THEN invalidated({ByTypeKey(body.type_id), TreeKey(id), AllCategoriesKey})
              ELSE cache
  /\ UNCHANGED <<types, files, items, allCategories, rows, saves, build, pageVars, callVars,
                 location, form, sent, searchParams, effects, outCsv>>

NextCache ==
  \/ \E key \in QueryKeys : FetchQuery(key)
  \/ CreateCategoryMutation([name |-> "Salary", type_id |-> standardTypeId(types), parent_id |-> NULL])
  \/ \E id \in 1..MaxCategories, p \in 0..MaxCategories, t \in 1..MaxTypes :
        UpdateCategoryMutation(id, [parent_id |-> p, type_id |-> t, icon_file |-> NULL])

SpecCache == InitCache /\ [][NextCache]_vars

\* C25: after every successful category creation or update, every cached
\* category query whose result includes the affected category (the list of
\* all categories, the by-type lists of its previous and new type, the
\* descendant lists of its previous and new ancestors) is invalidated before
\* it is next served as fresh: a cached result that is not invalidated is the
\* result the back end would give.
C25_InvalidatedBeforeServed ==
  \A k \in QueryKeys :
     (cache[k].held /\ ~cache[k].invalid) => cache[k].data = serverResult(categories, k)

\* ------------------------------------ claims on submitting the payment form
\* C26: a submit with an amount that is not a number or not greater than 0
\* calls no onSubmit and sets an error message; otherwise the submitted
\* amount is the entered magnitude for income and its negation for expense,
\* so it is never 0 and its sign matches the toggle.
C26_AmountValidated ==
  [][handleSubmit =>
       IF parseFloat(form.amount) = <<>> \/ parseFloat(form.amount)[1] <= 0
       THEN sent' = sent /\ form'.error
       ELSE /\ sent'.status = "pending"
            /\ numberToString(abs(sent'.data.amount)) = form.amount
            /\ sent'.data.amount # 0
            /\ (sent'.data.amount > 0) = form.isPositive]_vars

\* C26 witness: an expense was submitted and stored with a negative amount,
\* and a later submit of the amount 0 has set the error and sent nothing.
C26_Witness ==
  /\ form.mounted /\ form.error /\ form.amount = "0"
  /\ sent.status = "success"
  /\ \E i \in DOMAIN items : items[i].amount < 0

EditRoute == "/payment/:id/edit"

\* C27: on the edit page a submit whose data has no numeric id sends no
\* update request; a failed update causes no navigation and leaves the user
\* on the edit page with the error shown; only a successful update navigates
\* to the summary page.
C27_EditOutcomes ==
  [][/\ (location = EditRoute /\ handleSubmit /\ form.initialId = NULL) => sent' = sent
     /\ UpdateResponse(FALSE) =>
          (location' = EditRoute /\ form' = form /\ form.mounted /\ sent'.status = "error")
     /\ UpdateResponse(TRUE) => location' = "/"
     /\ (location = EditRoute /\ location' # EditRoute) =>
          \/ UpdateResponse(TRUE)
          \/ \E path \in {"/", "/add", "/add-success"} : VisitUrl(path)]_vars

\* C27 witness: an update failed and the edit page still shows the form
C27_Witness ==
  /\ location = EditRoute /\ form.mounted
  /\ sent.status = "error" /\ sent.op = "update"

\* ------------------------ categories of the payment form (SpecFormTypes)
\* the stored category types: 'standard' alone, first, or second
TypeSets ==
  {<<[id |-> 1, name |-> StandardName]>>,
   <<[id |-> 1, name |-> StandardName], [id |-> 2, name |-> "other"]>>,
   <<[id |-> 1, name |-> "other"], [id |-> 2, name |-> StandardName]>>}

\* what the user can type into the new-category input of the form
NewCategoryNames == {"Food", "Rent", " "}

InitFormTypes ==
  /\ types \in TypeSets
  /\ categories = bootstrapStore(types, <<>>)
  /\ files = {}
  /\ allCategories = <<>>
  /\ rows = <<>>
  /\ saves = {}
  /\ response = [status |-> "none", detail |-> ""]
  /\ build = "CategoryEditPage"
  /\ items = <<>>
  /\ viewFilter = "all"
  /\ selectedCategoryIds = <<>>
  /\ selectedDropdownCategory = NULL
  /\ queryData = <<>>
  /\ probe = NoCall
  /\ outDesc = <<>>
  /\ outIcon = NoIcon
  /\ FlowIdle

\* PaymentItemForm.handleAddCategory: POST /categories with type_id 1
handleAddCategoryInForm(newCategoryName) ==
  /\ form.mounted
  /\ Len(categories) < MaxCategories
  /\ newCategoryName \notin {"", " "}
  /\ LET body == [name |-> newCategoryName, type_id |-> FormTypeId, parent_id |-> NULL]
     IN  /\ categories' = createStore(types, categories, body)
         /\ response' = createResult(types, categories, body)
         /\ form' = IF createResult(types, categories, body) = Ok
                    THEN [form EXCEPT !.selectedCategoryId = Len(categories) + 1]
                    ELSE [form EXCEPT !.error = TRUE]
  /\ UNCHANGED <<clientVars, types, files, items, allCategories, rows, saves, build,
                 pageVars, callVars, log, location, sent>>

NextFormTypes ==
  \/ handleAdd
  \/ \E path \in {"/", "/add"} : VisitUrl(path)
  \/ \E a \in AmountInputs : SetAmount(a)
  \/ \E c \in Ids(formOptions(categories)) \cup {NULL} : SetSelectedCategoryId(c)
  \/ \E n \in NewCategoryNames : handleAddCategoryInForm(n)

SpecFormTypes == InitFormTypes /\ [][NextFormTypes]_vars

\* C28: every category created from the payment form and every category
\* offered in its category dropdown belongs to the category type named
\* 'standard', whatever id that type has.
C28_StandardOnly ==
  /\ \A i \in DOMAIN categories :
        categories[i].name # UNCLASSIFIED => categories[i].type_id = standardTypeId(types)
  /\ \A i \in DOMAIN formOptions(categories) :
        formOptions(categories)[i].type_id = standardTypeId(types)

\* ----------------------------------------------- CSV export (SpecExport)
\* Texts are sequences of characters; a word without separators is one element.
Semicolon == ";"
Newline == "\n"

\* Array.prototype.join
RECURSIVE join(_, _)
join(texts, sep) ==
  IF texts = <<>> THEN <<>>
  ELSE IF Len(texts) = 1 THEN texts[1]
  ELSE texts[1] \o <<sep>> \o join(Tail(texts), sep)

\* String.prototype.split
RECURSIVE split(_, _)
split(text, sep) ==
  IF \E k \in DOMAIN text : text[k] = sep
  THEN LET k == CHOOSE i \in DOMAIN text : text[i] = sep /\ \A j \in 1..(i - 1) : text[j] # sep
       IN  <<SubSeq(text, 1, k - 1)>> \o split(SubSeq(text, k + 1, Len(text)), sep)
  ELSE <<text>>

\* item.amount.toString()
amountToString(n) == IF n < 0 THEN <<"-", numberToString(-n)>> ELSE <<numberToString(n)>>

\* new Date(item.date).toISOString().split('T')[0]
isoDate(date) == <<<<"2025-01-01">>, <<"2025-01-02">>>>[date]

\* paymentItems.sort((a, b) => date(a) - date(b)), a stable sort
RECURSIVE sortedItems(_)
sortedItems(data) ==
  IF data = <<>> THEN <<>>
  ELSE LET rest == sortedItems(Tail(data))
           before == SelectSeq(rest, LAMBDA it : it.date < Head(data).date)
           after == SelectSeq(rest, LAMBDA it : it.date >= Head(data).date)
       IN  before \o <<Head(data)>> \o after

\* answers of GET /recipients/{id}: a failure, or the stored recipient
NoAnswer == [ok |-> FALSE, name |-> <<>>, address |-> <<>>]
RecipientAnswers ==
  {NoAnswer,
   [ok |-> TRUE, name |-> <<"Bob">>, address |-> <<>>],
   [ok |-> TRUE, name |-> <<"Smith", Semicolon, "Co">>, address |-> <<"Main St">>]}

\* one line of the file for one payment item
csvRow(item, recipient, categoryOk, cats) ==
  LET amount == amountToString(item.amount)
      date == isoDate(item.date)
      description == IF item.description = NoDescription THEN <<>> ELSE item.description[1]
      periodic == IF item.periodic THEN <<"true">> ELSE <<"false">>
      found == item.recipient_id # NULL /\ recipient.ok
      recipientName == IF found THEN recipient.name ELSE <<>>
      recipientAddress == IF found THEN recipient.address ELSE <<>>
      standardCategoryName ==
        IF item.standard_category_id # NULL /\ categoryOk
           /\ item.standard_category_id \in DOMAIN cats
        THEN <<cats[item.standard_category_id].name>> ELSE <<>>
  IN  join(<<amount, date, description, recipientName, recipientAddress,
             standardCategoryName, periodic>>, Semicolon)

csvHeader ==
  <<"amount", Semicolon, "date", Semicolon, "description", Semicolon, "Recipient name",
    Semicolon, "Recipient address", Semicolon, "standard_category name", Semicolon, "periodic">>

csvContent(its, recipient, categoryOk, cats) ==
  csvHeader \o <<Newline>>
    \o join([k \in DOMAIN sortedItems(its) |->
               csvRow(sortedItems(its)[k], recipient, categoryOk, cats)], Newline)

\* the descriptions and the payment items the export is run against
ExportDescriptions == {NoDescription, <<<<"rent">>>>, <<<<"tea", Semicolon, "milk">>>>}
ExportItem ==
  [amount : {-5, 3}, date : {1, 2}, periodic : BOOLEAN, description : ExportDescriptions,
   recipient_id : {NULL, 1}, standard_category_id : {NULL, 2}]
ExportItems ==
  {<<>>} \cup {<<a>> : a \in ExportItem}
         \cup {<<a, b>> : a \in ExportItem,
                          b \in {x \in ExportItem : x.periodic /\ x.recipient_id = NULL}}

InitExport ==
  /\ types = <<[id |-> 1, name |-> StandardName]>>
  /\ categories = FormStore
  /\ files = {}
  /\ allCategories = <<>>
  /\ rows = <<>>
  /\ saves = {}
  /\ response = [status |-> "none", detail |-> ""]
  /\ build = "CategoryEditPage"
  /\ \E its \in ExportItems :
        items = [k \in DOMAIN its |->
                   [id |-> k, amount |-> its[k].amount, date |-> its[k].date,
                    periodic |-> its[k].periodic, description |-> its[k].description,
                    recipient_id |-> its[k].recipient_id,
                    standard_category_id |-> its[k].standard_category_id]]
  /\ viewFilter = "all"
  /\ selectedCategoryIds = <<>>
  /\ selectedDropdownCategory = NULL
  /\ queryData = <<>>
  /\ probe = NoCall
  /\ outDesc = <<>>
  /\ outIcon = NoIcon
  /\ FlowIdle

\* NavigationBar.handleExportCSV: the file downloaded by one click on Export
handleExportCSV(itemsOk, recipient, categoryOk) ==
  /\ outCsv' = IF itemsOk THEN <<csvContent(items, recipient, categoryOk, categories)>>
               ELSE NoFile
  /\ UNCHANGED <<storeVars, editorVars, pageVars, callVars, flowVars,
                 searchParams, effects, cache>>

NextExport ==
  \E itemsOk \in BOOLEAN, recipient \in RecipientAnswers, categoryOk \in BOOLEAN :
     handleExportCSV(itemsOk, recipient, categoryOk)

SpecExport == InitExport /\ [][NextExport]_vars

\* the lines of the downloaded file after the header
DataRows == Tail(split(outCsv[1], Newline))

\* the header comes first and the file has one line per stored item
\* (the line after the header is empty when there is no item)
OneRowPerItem ==
  outCsv # NoFile =>
     /\ split(outCsv[1], Newline)[1] = csvHeader
     /\ IF items = <<>> THEN DataRows = <<<<>>>> ELSE Len(DataRows) = Len(items)

\* the rows are in non-decreasing order of their date field
DateOrder ==
  (outCsv # NoFile /\ items # <<>>) =>
     \A i, j \in DOMAIN DataRows :
        i < j => \E d, e \in 1..2 : /\ d <= e
                                    /\ split(DataRows[i], Semicolon)[2] = isoDate(d)
                                    /\ split(DataRows[j], Semicolon)[2] = isoDate(e)

\* a failed item fetch produces no file; failed lookups leave the recipient
\* and category fields of a row empty
FailedLookups ==
  [][\A recipient \in RecipientAnswers, categoryOk \in BOOLEAN :
        /\ handleExportCSV(FALSE, recipient, categoryOk) => outCsv' = NoFile
        /\ (handleExportCSV(TRUE, NoAnswer, FALSE) /\ items # <<>>
              /\ \A k \in DOMAIN items : \/ Len(items[k].description) = 0
                                         \/ Semicolon \notin Range(items[k].description[1]))
           => LET written == Tail(split(outCsv'[1], Newline))
              IN  \A i \in DOMAIN written :
                     /\ Len(split(written[i], Semicolon)) = 7
                     /\ \A f \in 4..6 : split(written[i], Semicolon)[f] = <<>>]_vars

\* C29: a CSV export writes the header followed by one row per stored payment
\* item in non-decreasing order of date, and every data row has exactly seven
\* semicolon-separated fields, whatever the description and recipient text.
C29_SevenFields ==
  (outCsv # NoFile /\ items # <<>>) =>
     /\ OneRowPerItem
     /\ DateOrder
     /\ \A i \in DOMAIN DataRows : Len(split(DataRows[i], Semicolon)) = 7

====
